---- MODULE Spec2Model ----
(***************************************************************************)
(* Model of the spam-detection core: the red-black reputation tree of      *)
(* rbtree_core.py and the Bloom filter of bloom_filter.py.                 *)
(*                                                                         *)
(* Tree entries live in an arena addressed by index: index NIL is the      *)
(* shared sentinel object self.NIL, the index None stands for Python's     *)
(* None (the parent of the root, the parent of the sentinel, a search      *)
(* that found nothing).  Strings are sequences of character codes.         *)
(***************************************************************************)
EXTENDS Integers, Sequences, FiniteSets, TLC

VARIABLES root, size, left, right, parent, color, domain, reputation_score,
          spam_reports, legitimate_reports, raised, fixup, last, inserted, calls

treeVars == <<root, size, left, right, parent, color, domain, reputation_score,
              spam_reports, legitimate_reports, raised, fixup, last, inserted, calls>>

VARIABLES constructed, expected_items, false_positive_rate, bf_size, num_hashes,
          bit_array, items_added, bf_last, added

bloomVars == <<constructed, expected_items, false_positive_rate, bf_size, num_hashes,
               bit_array, items_added, bf_last, added>>

vars == <<treeVars, bloomVars>>

(***************************************************************************)
(* Bounds of the model.                                                    *)
(***************************************************************************)
NumDomains == 8          \* domain names the callers choose from
NumScoreDomains == 2     \* domain names used when scores and counters vary
MaxCalls == 4            \* calls made on one tree when scores and counters vary
NumWords == 3            \* keywords the callers of the filter choose from
MaxAdds == 2             \* items accepted by one filter between two clears
NumShaped == 4           \* entries of a tree put together by hand
NumListed == 5           \* domain names used when the tree is listed and measured

(***************************************************************************)
(* Color (rbtree_core.py:3-5) and the two distinguished references.        *)
(***************************************************************************)
RED == "RED"
BLACK == "BLACK"
Color == {RED, BLACK}
NIL == 0
None == -1

Nodes == 0..NumDomains
Entries == 1..NumDomains

(***************************************************************************)
(* Domain names.  The i-th name is the binary numeral of i written with    *)
(* the characters '0' (48) and '1' (49): "1", "10", "11", "100", ...  so   *)
(* that the string order differs from the order of creation.               *)
(***************************************************************************)
RECURSIVE DomainName(_)
DomainName(i) ==
    IF i < 2 THEN <<48 + i>> ELSE Append(DomainName(i \div 2), 48 + (i % 2))

Domains == {DomainName(i) : i \in 1..NumDomains}

(* Python's str.__lt__: lexicographic by code point, a proper prefix is less *)
RECURSIVE StrLess(_, _)
StrLess(a, b) ==
    IF b = <<>> THEN FALSE
    ELSE IF a = <<>> THEN TRUE
    ELSE IF Head(a) < Head(b) THEN TRUE
    ELSE IF Head(a) > Head(b) THEN FALSE
    ELSE StrLess(Tail(a), Tail(b))

(***************************************************************************)
(* The tree object as one value, so that the methods are operators from    *)
(* tree to tree.                                                           *)
(***************************************************************************)
Tree ==
    [root |-> root, size |-> size, left |-> left, right |-> right,
     parent |-> parent, color |-> color, domain |-> domain,
     reputation_score |-> reputation_score, spam_reports |-> spam_reports,
     legitimate_reports |-> legitimate_reports, raised |-> raised, fixup |-> fixup]

(* RedBlackTree.__init__: the sentinel is BLACK, its own left and right,   *)
(* its parent None; arena slots not yet allocated hold RBNode's defaults.  *)
(* `raised` tells that a call ended in an exception; `fixup` counts, for   *)
(* the latest insert_domain, the uncle recolorings and the rotations that  *)
(* its _insert_fixup made (observation only, the code keeps no such data). *)
NoFixup == [recolorings |-> 0, rotations |-> 0]

EmptyTree ==
    [root |-> NIL, size |-> 0,
     left |-> [n \in Nodes |-> NIL],
     right |-> [n \in Nodes |-> NIL],
     parent |-> [n \in Nodes |-> None],
     color |-> [n \in Nodes |-> IF n = NIL THEN BLACK ELSE RED],
     domain |-> [n \in Nodes |-> <<>>],
     reputation_score |-> [n \in Nodes |-> 0],
     spam_reports |-> [n \in Nodes |-> 0],
     legitimate_reports |-> [n \in Nodes |-> 0],
     raised |-> FALSE,
     fixup |-> NoFixup]

(***************************************************************************)
(* _left_rotate / _right_rotate, statement by statement.                   *)
(***************************************************************************)
(* a left rotation that leaves the parent link of the subtree that changes *)
(* sides as it was                                                        *)
_left_rotate_stale_parent(t, x) ==
    LET y  == t.right[x]
        t1 == [t EXCEPT !.right[x] = t.left[y]]
        t3 == [t1 EXCEPT !.parent[y] = t1.parent[x]]
        t4 == IF t3.parent[x] = None THEN [t3 EXCEPT !.root = y]
              ELSE IF x = t3.left[t3.parent[x]]
                   THEN [t3 EXCEPT !.left[t3.parent[x]] = y]
                   ELSE [t3 EXCEPT !.right[t3.parent[x]] = y]
        t5 == [t4 EXCEPT !.left[y] = x]
    IN  [t5 EXCEPT !.parent[x] = y, !.fixup.rotations = @ + 1]

_left_rotate(t, x) ==
    LET y  == t.right[x]
        t1 == [t EXCEPT !.right[x] = t.left[y]]
        t2 == IF t1.left[y] # NIL THEN [t1 EXCEPT !.parent[t1.left[y]] = x] ELSE t1
        t3 == [t2 EXCEPT !.parent[y] = t2.parent[x]]
        t4 == IF t3.parent[x] = None THEN [t3 EXCEPT !.root = y]
              ELSE IF x = t3.left[t3.parent[x]]
                   THEN [t3 EXCEPT !.left[t3.parent[x]] = y]
                   ELSE [t3 EXCEPT !.right[t3.parent[x]] = y]
        t5 == [t4 EXCEPT !.left[y] = x]
    IN  [t5 EXCEPT !.parent[x] = y, !.fixup.rotations = @ + 1]

_right_rotate(t, y) ==
    LET x  == t.left[y]
        t1 == [t EXCEPT !.left[y] = t.right[x]]
        t2 == IF t1.right[x] # NIL THEN [t1 EXCEPT !.parent[t1.right[x]] = y] ELSE t1
        t3 == [t2 EXCEPT !.parent[x] = t2.parent[y]]
        t4 == IF t3.parent[y] = None THEN [t3 EXCEPT !.root = x]
              ELSE IF y = t3.right[t3.parent[y]]
                   THEN [t3 EXCEPT !.right[t3.parent[y]] = x]
                   ELSE [t3 EXCEPT !.left[t3.parent[y]] = x]
        t5 == [t4 EXCEPT !.right[x] = y]
    IN  [t5 EXCEPT !.parent[y] = x, !.fixup.rotations = @ + 1]

(***************************************************************************)
(* The steps of _insert_fixup.                                             *)
(***************************************************************************)
(* Case 1 (lines 73-75 and 90-92): the uncle is RED *)
RecolorNoGrandparent(t, p, uncle, g) ==
    [t EXCEPT !.color[p] = BLACK, !.color[uncle] = BLACK,
              !.fixup.recolorings = @ + 1]

Recolor(t, p, uncle, g) ==
    [t EXCEPT !.color[p] = BLACK, !.color[uncle] = BLACK, !.color[g] = RED,
              !.fixup.recolorings = @ + 1]

(* Case 3 on the left side (lines 83-85) *)
OuterLeftParentStaysRed(t, node) ==
    LET tc == [t EXCEPT !.color[t.parent[t.parent[node]]] = RED]
    IN  _right_rotate(tc, tc.parent[tc.parent[node]])

OuterLeft(t, node) ==
    LET tb == [t EXCEPT !.color[t.parent[node]] = BLACK]
        tc == [tb EXCEPT !.color[tb.parent[tb.parent[node]]] = RED]
    IN  _right_rotate(tc, tc.parent[tc.parent[node]])

(* Case 3 on the right side (lines 100-102) *)
(* a Case 3 that rotates and recolors nothing *)
OuterRightUncolored(t, node) == _left_rotate(t, t.parent[t.parent[node]])

OuterRight(t, node) ==
    LET tb == [t EXCEPT !.color[t.parent[node]] = BLACK]
        tc == [tb EXCEPT !.color[tb.parent[tb.parent[node]]] = RED]
    IN  _left_rotate(tc, tc.parent[tc.parent[node]])

(* after the loop (line 103) *)
RootLeftAsIs(t) == t

BlackenRoot(t) == [t EXCEPT !.color[t.root] = BLACK]

(***************************************************************************)
(* _insert_fixup.  One evaluation is the while loop from its test on; the  *)
(* recursion is the next iteration.  node.parent.parent of an entry whose  *)
(* parent has no parent is None, and the attribute access on it raises.    *)
(***************************************************************************)
(* a fixup whose loop never runs *)
_insert_fixup_root_only(t, node) == BlackenRoot(t)

RECURSIVE _insert_fixup(_, _)
_insert_fixup(t, node) ==
    IF t.parent[node] = None \/ t.color[t.parent[node]] # RED
    THEN BlackenRoot(t)
    ELSE
      LET p == t.parent[node]
          g == t.parent[p]
      IN
      IF g = None THEN [t EXCEPT !.raised = TRUE]
      ELSE IF p = t.left[g]
      THEN
        LET uncle == t.right[g] IN
        IF t.color[uncle] = RED
        THEN _insert_fixup(Recolor(t, p, uncle, g), g)
        ELSE IF node = t.right[p]
             THEN _insert_fixup(OuterLeft(_left_rotate(t, p), p), p)
             ELSE _insert_fixup(OuterLeft(t, node), node)
      ELSE
        LET uncle == t.left[g] IN
        IF t.color[uncle] = RED
        THEN _insert_fixup(Recolor(t, p, uncle, g), g)
        ELSE IF node = t.left[p]
             THEN _insert_fixup(OuterRight(_right_rotate(t, p), p), p)
             ELSE _insert_fixup(OuterRight(t, node), node)

(***************************************************************************)
(* The descent loop of insert_domain (lines 39-51): from `current` with    *)
(* `par` the last entry visited, the result is either the entry that has   *)
(* the domain already or the parent under which to attach.                 *)
(***************************************************************************)
RECURSIVE Descend(_, _, _, _)
Descend(t, d, par, current) ==
    IF current = NIL THEN [found |-> FALSE, node |-> par]
    ELSE IF StrLess(d, t.domain[current]) THEN Descend(t, d, current, t.left[current])
    ELSE IF StrLess(t.domain[current], d) THEN Descend(t, d, current, t.right[current])
    ELSE [found |-> TRUE, node |-> current]

(* RBNode(domain, reputation_score): which arena slot the new object takes *)
(* is immaterial (object identity in Python), so the entry made for the    *)
(* i-th domain name takes slot i; its fields are set by insert_domain.     *)
NewNode(d) == CHOOSE i \in Entries : DomainName(i) = d

(* lines 49-51: the domain is there already *)
UpdateExistingAndResetReports(t, node, s) ==
    [t EXCEPT !.reputation_score[node] = s, !.spam_reports[node] = 0,
              !.legitimate_reports[node] = 0, !.fixup = NoFixup]

UpdateExisting(t, node, s) ==
    [t EXCEPT !.reputation_score[node] = s, !.fixup = NoFixup]

(* lines 52-59: hang the new entry below par, or make it the root *)
AttachOtherSide(t, par, new_node, d) ==
    LET t0 == [t EXCEPT !.parent[new_node] = par] IN
    IF par = None THEN [t0 EXCEPT !.root = new_node]
    ELSE IF StrLess(d, t0.domain[par]) THEN [t0 EXCEPT !.right[par] = new_node]
    ELSE [t0 EXCEPT !.left[par] = new_node]

Attach(t, par, new_node, d) ==
    LET t0 == [t EXCEPT !.parent[new_node] = par] IN
    IF par = None THEN [t0 EXCEPT !.root = new_node]
    ELSE IF StrLess(d, t0.domain[par]) THEN [t0 EXCEPT !.left[par] = new_node]
    ELSE [t0 EXCEPT !.right[par] = new_node]

(* insert_domain: the tree afterwards and the entry returned *)
insert_domain(t, d, s) ==
    LET where == Descend(t, d, None, t.root) IN
    IF where.found
    THEN [tree |-> UpdateExisting(t, where.node, s), ret |-> where.node]
    ELSE
      LET new_node == NewNode(d)
          t0 == [t EXCEPT !.domain[new_node] = d,
                          !.reputation_score[new_node] = s,
                          !.spam_reports[new_node] = 0,
                          !.legitimate_reports[new_node] = 0,
                          !.color[new_node] = RED,
                          !.left[new_node] = NIL,
                          !.right[new_node] = NIL,
                          !.parent[new_node] = None,
                          !.fixup = NoFixup]
          t1 == Attach(t0, where.node, new_node, d)
          t2 == [t1 EXCEPT !.size = t1.size + 1]
      IN [tree |-> _insert_fixup(t2, new_node), ret |-> new_node]

(* a search that descends to the wrong side *)
RECURSIVE SearchFromWrongSide(_, _, _)
SearchFromWrongSide(t, d, current) ==
    IF current = NIL THEN None
    ELSE IF d = t.domain[current] THEN current
    ELSE IF StrLess(d, t.domain[current]) THEN SearchFromWrongSide(t, d, t.right[current])
    ELSE SearchFromWrongSide(t, d, t.left[current])

(* search_domain: the entry, or None *)
RECURSIVE SearchFrom(_, _, _)
SearchFrom(t, d, current) ==
    IF current = NIL THEN None
    ELSE IF d = t.domain[current] THEN current
    ELSE IF StrLess(d, t.domain[current]) THEN SearchFrom(t, d, t.left[current])
    ELSE SearchFrom(t, d, t.right[current])

(* a search that takes the root for the answer when the domain is absent *)
search_domain_or_root(t, d) ==
    LET found == SearchFrom(t, d, t.root) IN
    IF found = None /\ t.root # NIL THEN t.root ELSE found

search_domain(t, d) == SearchFrom(t, d, t.root)

(* Python's built-in max and min on two integers *)
Max(a, b) == IF a >= b THEN a ELSE b
Min(a, b) == IF a <= b THEN a ELSE b

(* an update_reputation_score that bounds the score from above only *)
update_reputation_score_upper_only(t, d, new_score) ==
    LET node == search_domain(t, d) IN
    IF node # None
    THEN [tree |-> [t EXCEPT !.reputation_score[node] = Min(100, new_score)],
          ret |-> TRUE]
    ELSE [tree |-> t, ret |-> FALSE]

(* update_reputation_score: the tree afterwards and the value returned *)
update_reputation_score(t, d, new_score) ==
    LET node == search_domain(t, d) IN
    IF node # None
    THEN [tree |-> [t EXCEPT !.reputation_score[node] = Max(0, Min(100, new_score))],
          ret |-> TRUE]
    ELSE [tree |-> t, ret |-> FALSE]

(* an increment_spam_reports that takes 3 points per report *)
increment_spam_reports_by_three(t, d, amount) ==
    LET node == search_domain(t, d) IN
    IF node # None
    THEN LET t1 == [t EXCEPT !.spam_reports[node] = t.spam_reports[node] + amount]
             t2 == [t1 EXCEPT !.reputation_score[node] =
                                 Max(0, t1.reputation_score[node] - (amount * 3))]
         IN [tree |-> t2, ret |-> t2.reputation_score[node]]
    ELSE [tree |-> t, ret |-> None]

(* increment_spam_reports: the tree afterwards and the score returned (or None) *)
increment_spam_reports(t, d, amount) ==
    LET node == search_domain(t, d) IN
    IF node # None
    THEN LET t1 == [t EXCEPT !.spam_reports[node] = t.spam_reports[node] + amount]
             t2 == [t1 EXCEPT !.reputation_score[node] =
                                 Max(0, t1.reputation_score[node] - (amount * 5))]
         IN [tree |-> t2, ret |-> t2.reputation_score[node]]
    ELSE [tree |-> t, ret |-> None]

(* an increment_legitimate_reports that does not bound the score *)
increment_legitimate_reports_unclamped(t, d, amount) ==
    LET node == search_domain(t, d) IN
    IF node # None
    THEN LET t1 == [t EXCEPT !.legitimate_reports[node] = t.legitimate_reports[node] + amount]
             t2 == [t1 EXCEPT !.reputation_score[node] =
                                 t1.reputation_score[node] + (amount * 3)]
         IN [tree |-> t2, ret |-> t2.reputation_score[node]]
    ELSE [tree |-> t, ret |-> None]

(* increment_legitimate_reports: the tree afterwards and the score returned (or None) *)
increment_legitimate_reports(t, d, amount) ==
    LET node == search_domain(t, d) IN
    IF node # None
    THEN LET t1 == [t EXCEPT !.legitimate_reports[node] = t.legitimate_reports[node] + amount]
             t2 == [t1 EXCEPT !.reputation_score[node] =
                                 Min(100, t1.reputation_score[node] + (amount * 3))]
         IN [tree |-> t2, ret |-> t2.reputation_score[node]]
    ELSE [tree |-> t, ret |-> None]

(* get_all_domains / _inorder_collect_all: (domain, score) in visiting order *)
RECURSIVE _inorder_collect_all(_, _)
_inorder_collect_all(t, node) ==
    IF node = NIL THEN <<>>
    ELSE _inorder_collect_all(t, t.left[node])
         \o << <<t.domain[node], t.reputation_score[node]>> >>
         \o _inorder_collect_all(t, t.right[node])

get_all_domains(t) == _inorder_collect_all(t, t.root)

(* a traversal that also takes the entries whose score equals the threshold *)
RECURSIVE _inorder_collect_blacklisted_inclusive(_, _, _)
_inorder_collect_blacklisted_inclusive(t, node, threshold) ==
    IF node = NIL THEN <<>>
    ELSE _inorder_collect_blacklisted_inclusive(t, t.left[node], threshold)
         \o (IF t.reputation_score[node] <= threshold
             THEN << <<t.domain[node], t.reputation_score[node]>> >>
             ELSE <<>>)
         \o _inorder_collect_blacklisted_inclusive(t, t.right[node], threshold)

(* _inorder_collect_blacklisted: (domain, score) of the entries whose score *)
(* is below the threshold, in visiting order                                *)
RECURSIVE _inorder_collect_blacklisted(_, _, _)
_inorder_collect_blacklisted(t, node, threshold) ==
    IF node = NIL THEN <<>>
    ELSE _inorder_collect_blacklisted(t, t.left[node], threshold)
         \o (IF t.reputation_score[node] < threshold
             THEN << <<t.domain[node], t.reputation_score[node]>> >>
             ELSE <<>>)
         \o _inorder_collect_blacklisted(t, t.right[node], threshold)

(* a get_blacklisted_domains that keeps the number of hits as the size *)
get_blacklisted_domains_counting(t, threshold) ==
    LET blacklisted == _inorder_collect_blacklisted(t, t.root, threshold) IN
    [tree |-> [t EXCEPT !.size = Len(blacklisted)], ret |-> blacklisted]

(* get_blacklisted_domains: the tree afterwards and the list returned *)
get_blacklisted_domains(t, threshold) ==
    [tree |-> t, ret |-> _inorder_collect_blacklisted(t, t.root, threshold)]

RECURSIVE _calculate_height(_, _)
_calculate_height(t, node) ==
    IF node = NIL THEN 0
    ELSE LET left_height == _calculate_height(t, t.left[node])
             right_height == _calculate_height(t, t.right[node])
         IN 1 + Max(left_height, right_height)

(* get_height: the tree afterwards and the height returned *)
get_height(t) == [tree |-> t, ret |-> _calculate_height(t, t.root)]

(* a red-red check that looks at the left child only *)
RECURSIVE _verify_no_red_red_left_only(_, _)
_verify_no_red_red_left_only(t, node) ==
    IF node = NIL THEN TRUE
    ELSE IF /\ t.color[node] = RED
            /\ (t.left[node] # NIL /\ t.color[t.left[node]] = RED)
         THEN FALSE
         ELSE /\ _verify_no_red_red_left_only(t, t.left[node])
              /\ _verify_no_red_red_left_only(t, t.right[node])

RECURSIVE _verify_no_red_red(_, _)
_verify_no_red_red(t, node) ==
    IF node = NIL THEN TRUE
    ELSE IF /\ t.color[node] = RED
            /\ \/ (t.left[node] # NIL /\ t.color[t.left[node]] = RED)
               \/ (t.right[node] # NIL /\ t.color[t.right[node]] = RED)
         THEN FALSE
         ELSE _verify_no_red_red(t, t.left[node]) /\ _verify_no_red_red(t, t.right[node])

(* _get_black_height: -1 stands for a violation, as in the code *)
RECURSIVE _get_black_height(_, _)
_get_black_height(t, node) ==
    IF node = NIL THEN 1
    ELSE LET left_height == _get_black_height(t, t.left[node])
             right_height == _get_black_height(t, t.right[node])
         IN IF left_height = -1 \/ right_height = -1 \/ left_height # right_height
            THEN -1
            ELSE IF t.color[node] = BLACK THEN left_height + 1 ELSE left_height

(* verify_rb_properties: the tree afterwards and the pair (ok, errors) *)
verify_rb_properties(t) ==
    LET e1 == IF t.root # NIL /\ t.color[t.root] # BLACK
              THEN <<"Root is not black">> ELSE <<>>
        e2 == IF ~_verify_no_red_red(t, t.root)
              THEN <<"Red-Red violation found">> ELSE <<>>
        e3 == IF _get_black_height(t, t.root) = -1
              THEN <<"Black height violation found">> ELSE <<>>
        errors == e1 \o e2 \o e3
    IN [tree |-> t, ret |-> <<Len(errors) = 0, errors>>]

(***************************************************************************)
(* DomainAnalytics (analytics_final.py) on its tree self.rbt: the tree     *)
(* afterwards, the value returned and the details appended to the action   *)
(* history.  // is the floor division.                                     *)
(***************************************************************************)
report_spam_domain(t, d, severity) ==
    LET t1 == IF search_domain(t, d) = None THEN insert_domain(t, d, 40).tree ELSE t
        node == search_domain(t1, d)
        reputation_decrease == severity * 10
        old_score == t1.reputation_score[node]
        new_score == Max(0, t1.reputation_score[node] - reputation_decrease)
        t2 == update_reputation_score(t1, d, new_score).tree
        t3 == increment_spam_reports(t2, d, severity).tree
    IN  [tree |-> t3,
         ret |-> [returned |-> new_score,
                  logged |-> [action |-> "spam_report", old_score |-> old_score,
                              new_score |-> new_score]]]

whitelist_domain(t, d, boost) ==
    LET t1 == IF search_domain(t, d) = None THEN insert_domain(t, d, 80).tree ELSE t
        node == search_domain(t1, d)
        old_score == t1.reputation_score[node]
        new_score == Min(100, t1.reputation_score[node] + boost)
        t2 == update_reputation_score(t1, d, new_score).tree
        t3 == increment_legitimate_reports(t2, d, boost \div 3).tree
    IN  [tree |-> t3,
         ret |-> [returned |-> new_score,
                  logged |-> [action |-> "whitelist", old_score |-> old_score,
                              new_score |-> new_score]]]

(***************************************************************************)
(* Bloom filter (bloom_filter.py).                                         *)
(*                                                                         *)
(* The hash functions work on 32-bit values (& 0xFFFFFFFF).  A 32-bit      *)
(* value is the pair <<hi, lo>> of its 16-bit halves, so that no           *)
(* intermediate result leaves the integers the checker can hold.           *)
(***************************************************************************)
Word(n) == <<n \div 65536, n % 65536>>

RECURSIVE BitXor(_, _)
BitXor(a, b) ==
    IF a = 0 THEN b
    ELSE IF b = 0 THEN a
    ELSE ((a + b) % 2) + 2 * BitXor(a \div 2, b \div 2)

(* x ^ y *)
XorW(x, y) == <<BitXor(x[1], y[1]), BitXor(x[2], y[2])>>

(* x >> 15 *)
Shr15(x) == <<x[1] \div 32768, (x[1] % 32768) * 2 + x[2] \div 32768>>

(* a * b for 16-bit a and b, as a 32-bit value *)
Mul16(a, b) ==
    LET p0 == (a % 256) * b
        p1 == (a \div 256) * b
        low == p0 + (p1 % 256) * 256
    IN  <<(low \div 65536 + p1 \div 256) % 65536, low % 65536>>

(* (x * c) & 0xFFFFFFFF *)
MulW(x, c) ==
    LET p == Mul16(x[2], c[2]) IN
    <<(p[1] + Mul16(x[1], c[2])[2] + Mul16(x[2], c[1])[2]) % 65536, p[2]>>

(* (x + n) & 0xFFFFFFFF for 0 <= n < 65536 *)
AddW(x, n) == <<(x[1] + (x[2] + n) \div 65536) % 65536, (x[2] + n) % 65536>>

(* x % m for 0 < m < 32768 *)
ModW(x, m) == ((x[1] % m) * (65536 % m) + (x[2] % m)) % m

(* _murmur_hash: the loop over the bytes, then the reduction *)
RECURSIVE MurmurLoop(_, _)
MurmurLoop(h, key) ==
    IF key = <<>> THEN h
    ELSE LET h1 == XorW(h, Word(Head(key)))
             h2 == MulW(h1, <<23505, 59797>>)          \* 0x5bd1e995
             h3 == XorW(h2, Shr15(h2))
         IN MurmurLoop(h3, Tail(key))

_murmur_hash(key, seed, m) == ModW(MurmurLoop(Word(seed), key), m)

(* _fnv_hash *)
RECURSIVE FnvLoop(_, _)
FnvLoop(h, key) ==
    IF key = <<>> THEN h
    ELSE FnvLoop(MulW(XorW(h, Word(Head(key))), <<256, 403>>), Tail(key))   \* 0x01000193

_fnv_hash(key, seed, m) == ModW(FnvLoop(AddW(<<33052, 40389>>, seed), key), m)  \* 0x811c9dc5

(* _djb2_hash: ((h << 5) + h) + ord(char) *)
RECURSIVE Djb2Loop(_, _)
Djb2Loop(h, key) ==
    IF key = <<>> THEN h
    ELSE Djb2Loop(AddW(MulW(h, Word(33)), Head(key)), Tail(key))

_djb2_hash(key, seed, m) == ModW(Djb2Loop(Word(5381 + seed), key), m)

(* _sdbm_hash: ord(char) + (h << 6) + (h << 16) - h *)
RECURSIVE SdbmLoop(_, _)
SdbmLoop(h, key) ==
    IF key = <<>> THEN h
    ELSE SdbmLoop(AddW(MulW(h, Word(65599)), Head(key)), Tail(key))

_sdbm_hash(key, seed, m) == ModW(SdbmLoop(Word(seed), key), m)

(***************************************************************************)
(* Items.  A Python value handed to add / contains is a string (its        *)
(* character codes) or something that is not a string.                     *)
(***************************************************************************)
Str(chars) == [type |-> "str", chars |-> chars]
NotAString == [type |-> "NoneType", chars |-> <<>>]

(* the characters str.strip() removes, among the ASCII ones *)
Whitespace == {9, 10, 11, 12, 13, 28, 29, 30, 31, 32}

(* str.lower() and str.upper() on ASCII text *)
lower(chars) ==
    [i \in 1..Len(chars) |-> IF chars[i] >= 65 /\ chars[i] <= 90 THEN chars[i] + 32 ELSE chars[i]]

upper(chars) ==
    [i \in 1..Len(chars) |-> IF chars[i] >= 97 /\ chars[i] <= 122 THEN chars[i] - 32 ELSE chars[i]]

(* str.strip() *)
RECURSIVE lstrip(_)
lstrip(chars) ==
    IF chars # <<>> /\ Head(chars) \in Whitespace THEN lstrip(Tail(chars)) ELSE chars

RECURSIVE rstrip(_)
rstrip(chars) ==
    IF chars # <<>> /\ chars[Len(chars)] \in Whitespace
    THEN rstrip(SubSeq(chars, 1, Len(chars) - 1)) ELSE chars

strip(chars) == rstrip(lstrip(chars))

(* a guard that lets every string with a character through *)
AcceptedUnstripped(item) == item.type = "str" /\ item.chars # <<>>

(* the guard of add and contains: isinstance(item, str) and item.strip() *)
Accepted(item) == item.type = "str" /\ strip(item.chars) # <<>>

(* an index derivation that never passes a seed on *)
HashAtSeedless(i, key, m) ==
    LET func_idx == i % 4
    IN  IF func_idx = 0 THEN _murmur_hash(key, 0, m)
        ELSE IF func_idx = 1 THEN _fnv_hash(key, 0, m)
        ELSE IF func_idx = 2 THEN _djb2_hash(key, 0, m)
        ELSE _sdbm_hash(key, 0, m)

(* _get_hash_values for a filter of m bits and k hash functions *)
HashAt(i, key, m) ==
    LET func_idx == i % 4
        seed == i \div 4
    IN  IF func_idx = 0 THEN _murmur_hash(key, seed, m)
        ELSE IF func_idx = 1 THEN _fnv_hash(key, seed, m)
        ELSE IF func_idx = 2 THEN _djb2_hash(key, seed, m)
        ELSE _sdbm_hash(key, seed, m)

(* index positions taken from the item as spelled, without lower() *)
_get_hash_values_case_sensitive(chars, m, k) ==
    LET item_lower == strip(chars) IN
    [i \in 1..k |-> HashAt(i - 1, item_lower, m)]

_get_hash_values(chars, m, k) ==
    LET item_lower == strip(lower(chars)) IN
    [i \in 1..k |-> HashAt(i - 1, item_lower, m)]

(***************************************************************************)
(* The inputs of the filter: NumWords keywords over the letters a and b,   *)
(* each in several spellings, and the items that carry no keyword.         *)
(***************************************************************************)
RECURSIVE Keyword(_)
Keyword(i) ==
    IF i < 2 THEN <<97 + i>> ELSE Append(Keyword(i \div 2), 97 + (i % 2))

Keywords == {Keyword(i) : i \in 1..NumWords}

Spellings(w) == {w, upper(w), <<32>> \o w \o <<10>>}

Items ==
    {Str(v) : v \in UNION {Spellings(w) : w \in Keywords}}
        \cup {Str(<<>>), Str(<<32>>), NotAString}

(***************************************************************************)
(* Construction.  n is expected_items; the false positive rate is given    *)
(* in percent.  math.log is a table of the natural logarithms in           *)
(* millionths for the rates used; ln 2 = 0.693147.  math.log raises        *)
(* ValueError for a rate that is not positive, and m / n raises            *)
(* ZeroDivisionError for n = 0; __init__ catches neither.                  *)
(***************************************************************************)
Ln2Micro == 693147
Ln2SquaredMicro == 480453

LogMicro(percent) ==
    IF percent = 1 THEN -4605170
    ELSE IF percent = 10 THEN -2302585
    ELSE IF percent = 100 THEN 0
    ELSE IF percent = 200 THEN 693147
    ELSE -693147                         \* 50 percent

CeilDiv(a, b) == (a + b - 1) \div b

(* _calculate_optimal_size: ceil(-(n * ln p) / (ln 2)^2) *)
_calculate_optimal_size(n, percent) ==
    CeilDiv(-(n * LogMicro(percent)), Ln2SquaredMicro)

(* _calculate_optimal_hash_count: ceil((m / n) * ln 2) *)
_calculate_optimal_hash_count(m, n) ==
    IF n > 0 THEN CeilDiv(m * Ln2Micro, n * 1000000)
    ELSE CeilDiv(-(m * Ln2Micro), -(n * 1000000))

(* __init__ ends in an exception: math.log of a rate <= 0, or m / n with n = 0 *)
InitRaises(n, percent) == percent <= 0 \/ n = 0

Configs == {[n |-> 2, percent |-> 1], [n |-> 2, percent |-> 10]}

(* The index positions of every keyword spelling under every configuration, *)
(* computed once; Fingerprint is _get_hash_values read from that table.     *)
FingerprintTable ==
    [c \in Configs |->
        LET m == _calculate_optimal_size(c.n, c.percent)
            k == _calculate_optimal_hash_count(m, c.n)
        IN  [it \in {x \in Items : Accepted(x)} |-> _get_hash_values(it.chars, m, k)]]

Fingerprint(f, item) ==
    IF /\ [n |-> f.expected_items, percent |-> f.false_positive_rate] \in Configs
       /\ item \in Items
    THEN FingerprintTable[[n |-> f.expected_items, percent |-> f.false_positive_rate]][item]
    ELSE _get_hash_values(item.chars, f.bf_size, f.num_hashes)

(* the filter object as one value *)
Filter ==
    [expected_items |-> expected_items, false_positive_rate |-> false_positive_rate,
     bf_size |-> bf_size, num_hashes |-> num_hashes, bit_array |-> bit_array,
     items_added |-> items_added]

(* __init__ *)
BloomFilter(n, percent) ==
    LET m == _calculate_optimal_size(n, percent)
        k == _calculate_optimal_hash_count(m, n)
    IN  [expected_items |-> n, false_positive_rate |-> percent,
         bf_size |-> m, num_hashes |-> k,
         bit_array |-> [j \in 0..(m - 1) |-> FALSE],
         items_added |-> 0]

(* self.bit_array[idx] raises IndexError: the list is empty (its length   *)
(* was not positive) and there is at least one index to look at           *)
IndexError(f, item) ==
    Accepted(item) /\ f.num_hashes > 0 /\ DOMAIN f.bit_array = {}

(* add: the filter afterwards *)
SetBits(bits, indices) ==
    [j \in DOMAIN bits |-> bits[j] \/ (\E i \in DOMAIN indices : indices[i] = j)]

(* an add that counts an item only when it sets a bit that was not set *)
add_counting_new_bits(f, item) ==
    IF ~Accepted(item) \/ IndexError(f, item) THEN f
    ELSE LET bits == SetBits(f.bit_array, Fingerprint(f, item)) IN
         [f EXCEPT !.bit_array = bits,
                   !.items_added = IF bits = f.bit_array THEN f.items_added
                                   ELSE f.items_added + 1]

add(f, item) ==
    IF ~Accepted(item) \/ IndexError(f, item) THEN f
    ELSE [f EXCEPT !.bit_array = SetBits(f.bit_array, Fingerprint(f, item)),
                   !.items_added = f.items_added + 1]

(* a contains that is content with one of the positions *)
contains_any_position(f, item) ==
    IF ~Accepted(item) \/ IndexError(f, item) THEN FALSE
    ELSE LET indices == Fingerprint(f, item)
         IN  \E i \in DOMAIN indices : f.bit_array[indices[i]]

(* contains: the value returned *)
contains(f, item) ==
    IF ~Accepted(item) \/ IndexError(f, item) THEN FALSE
    ELSE LET indices == Fingerprint(f, item)
         IN  \A i \in DOMAIN indices : f.bit_array[indices[i]]

(* a clear that leaves the count of items as it is *)
clear_bits_only(f) == [f EXCEPT !.bit_array = [j \in 0..(f.bf_size - 1) |-> FALSE]]

(* get_stats.  A quotient is the pair of its numerator and denominator;    *)
(* actual_fp_rate, (1 - exp(-k * items / m)) ** k, is given by its         *)
(* exponent and its power, and is 0 while nothing has been added.          *)
get_stats(f) ==
    LET bits_set == Cardinality({j \in DOMAIN f.bit_array : f.bit_array[j]}) IN
    [size_bits |-> f.bf_size,
     num_hash_functions |-> f.num_hashes,
     items_added |-> f.items_added,
     expected_items |-> f.expected_items,
     capacity_usage_percent |-> <<f.items_added * 100, f.expected_items>>,
     bits_set_percent |-> <<bits_set * 100, f.bf_size>>,
     expected_fp_rate |-> f.false_positive_rate,
     actual_fp_rate |-> IF f.items_added = 0 THEN <<0, 0, 0>>
                        ELSE <<-(f.num_hashes * f.items_added), f.bf_size, f.num_hashes>>]

(* clear *)
clear(f) == [f EXCEPT !.bit_array = [j \in 0..(f.bf_size - 1) |-> FALSE], !.items_added = 0]

(***************************************************************************)
(* State machine of the tree.                                              *)
(***************************************************************************)
SetTree(t) ==
    /\ root' = t.root
    /\ size' = t.size
    /\ left' = t.left
    /\ right' = t.right
    /\ parent' = t.parent
    /\ color' = t.color
    /\ domain' = t.domain
    /\ reputation_score' = t.reputation_score
    /\ spam_reports' = t.spam_reports
    /\ legitimate_reports' = t.legitimate_reports
    /\ raised' = t.raised
    /\ fixup' = t.fixup

InitTree ==
    /\ root = EmptyTree.root
    /\ size = EmptyTree.size
    /\ left = EmptyTree.left
    /\ right = EmptyTree.right
    /\ parent = EmptyTree.parent
    /\ color = EmptyTree.color
    /\ domain = EmptyTree.domain
    /\ reputation_score = EmptyTree.reputation_score
    /\ spam_reports = EmptyTree.spam_reports
    /\ legitimate_reports = EmptyTree.legitimate_reports
    /\ raised = EmptyTree.raised
    /\ fixup = EmptyTree.fixup
    /\ last = [op |-> "init", domain |-> <<>>, arg |-> 0, ret |-> None, present |-> FALSE]
    /\ inserted = {}
    /\ calls = 0

(***************************************************************************)
(* Calls on the tree.  Every action is one whole public method; `last`     *)
(* records the call and what it returned, `inserted` the domains ever      *)
(* passed to insert_domain.                                                *)
(***************************************************************************)
Called(op, d, a, r) ==
    last' = [op |-> op, domain |-> d, arg |-> a, ret |-> r,
             present |-> search_domain(Tree, d) # None]

InsertDomain(d, s) ==
    /\ ~raised
    /\ LET r == insert_domain(Tree, d, s) IN
       /\ SetTree(r.tree)
       /\ Called("insert_domain", d, s, r.ret)
    /\ inserted' = inserted \cup {d}

SearchDomain(d) ==
    /\ ~raised
    /\ Called("search_domain", d, 0, search_domain(Tree, d))
    /\ UNCHANGED <<root, size, left, right, parent, color, domain, reputation_score,
                   spam_reports, legitimate_reports, raised, fixup, inserted>>

UpdateReputationScore(d, s) ==
    /\ ~raised
    /\ LET r == update_reputation_score(Tree, d, s) IN
       /\ SetTree(r.tree)
       /\ Called("update_reputation_score", d, s, r.ret)
    /\ UNCHANGED inserted

IncrementSpamReports(d, a) ==
    /\ ~raised
    /\ LET r == increment_spam_reports(Tree, d, a) IN
       /\ SetTree(r.tree)
       /\ Called("increment_spam_reports", d, a, r.ret)
    /\ UNCHANGED inserted

IncrementLegitimateReports(d, a) ==
    /\ ~raised
    /\ LET r == increment_legitimate_reports(Tree, d, a) IN
       /\ SetTree(r.tree)
       /\ Called("increment_legitimate_reports", d, a, r.ret)
    /\ UNCHANGED inserted

(* the methods below take no domain: the record of the call holds the      *)
(* empty string for it                                                     *)
GetBlacklistedDomains(threshold) ==
    /\ ~raised
    /\ LET r == get_blacklisted_domains(Tree, threshold) IN
       /\ SetTree(r.tree)
       /\ Called("get_blacklisted_domains", <<>>, threshold, r.ret)
    /\ UNCHANGED inserted

GetHeight ==
    /\ ~raised
    /\ LET r == get_height(Tree) IN
       /\ SetTree(r.tree)
       /\ Called("get_height", <<>>, 0, r.ret)
    /\ UNCHANGED inserted

VerifyRbProperties ==
    /\ ~raised
    /\ LET r == verify_rb_properties(Tree) IN
       /\ SetTree(r.tree)
       /\ Called("verify_rb_properties", <<>>, 0, r.ret)
    /\ UNCHANGED inserted

(* A rotation called on its own, on an entry of the tree; `fixup` then      *)
(* counts this one rotation.                                               *)
LeftRotate(x) ==
    /\ ~raised
    /\ search_domain(Tree, domain[x]) = x
    /\ right[x] # NIL
    /\ SetTree(_left_rotate([Tree EXCEPT !.fixup = NoFixup], x))
    /\ Called("_left_rotate", domain[x], 0, None)
    /\ UNCHANGED inserted

RightRotate(y) ==
    /\ ~raised
    /\ search_domain(Tree, domain[y]) = y
    /\ left[y] # NIL
    /\ SetTree(_right_rotate([Tree EXCEPT !.fixup = NoFixup], y))
    /\ Called("_right_rotate", domain[y], 0, None)
    /\ UNCHANGED inserted

(* the two reporting methods of DomainAnalytics *)
ReportSpamDomain(d, severity) ==
    /\ ~raised
    /\ LET r == report_spam_domain(Tree, d, severity) IN
       /\ SetTree(r.tree)
       /\ Called("report_spam_domain", d, severity, r.ret)
    /\ inserted' = inserted \cup {d}

WhitelistDomain(d, boost) ==
    /\ ~raised
    /\ LET r == whitelist_domain(Tree, d, boost) IN
       /\ SetTree(r.tree)
       /\ Called("whitelist_domain", d, boost, r.ret)
    /\ inserted' = inserted \cup {d}

(* RedBlackTree defines no clear and no other method that removes entries: *)
(* the call tree.clear() ends in AttributeError and the tree is as before.  *)
ClearTree ==
    /\ ~raised
    /\ SetTree([Tree EXCEPT !.raised = TRUE])
    /\ Called("clear", <<>>, 0, None)
    /\ UNCHANGED inserted

(***************************************************************************)
(* Calls on the filter.  `bf_last` records the call, what it returned and  *)
(* whether it ended in an exception; `added` the items handed to add since *)
(* the filter was made or cleared.                                         *)
(***************************************************************************)
SetFilter(f) ==
    /\ expected_items' = f.expected_items
    /\ false_positive_rate' = f.false_positive_rate
    /\ bf_size' = f.bf_size
    /\ num_hashes' = f.num_hashes
    /\ bit_array' = f.bit_array
    /\ items_added' = f.items_added

NoCall == [op |-> "none", item |-> NotAString, ret |-> FALSE, raised |-> FALSE]

InitBloom ==
    /\ constructed = FALSE
    /\ expected_items = 0
    /\ false_positive_rate = 0
    /\ bf_size = 0
    /\ num_hashes = 0
    /\ bit_array = <<>>
    /\ items_added = 0
    /\ bf_last = NoCall
    /\ added = {}

Construct(n, percent) ==
    /\ ~constructed
    /\ IF InitRaises(n, percent)
       THEN /\ constructed' = FALSE
            /\ UNCHANGED <<expected_items, false_positive_rate, bf_size, num_hashes,
                           bit_array, items_added>>
       ELSE /\ constructed' = TRUE
            /\ SetFilter(BloomFilter(n, percent))
    /\ bf_last' = [op |-> "__init__", item |-> NotAString, ret |-> FALSE,
                   raised |-> InitRaises(n, percent)]
    /\ added' = {}

Add(item) ==
    /\ constructed
    /\ items_added < MaxAdds
    /\ SetFilter(add(Filter, item))
    /\ bf_last' = [op |-> "add", item |-> item, ret |-> FALSE,
                   raised |-> IndexError(Filter, item)]
    /\ added' = added \cup {item}
    /\ UNCHANGED constructed

Contains(item) ==
    /\ constructed
    /\ bf_last' = [op |-> "contains", item |-> item, ret |-> contains(Filter, item),
                   raised |-> IndexError(Filter, item)]
    /\ UNCHANGED <<constructed, expected_items, false_positive_rate, bf_size, num_hashes,
                   bit_array, items_added, added>>

Clear ==
    /\ constructed
    /\ SetFilter(clear(Filter))
    /\ bf_last' = [op |-> "clear", item |-> NotAString, ret |-> FALSE, raised |-> FALSE]
    /\ added' = {}
    /\ UNCHANGED constructed

Init == InitTree /\ InitBloom

(***************************************************************************)
(* Spec: any sequence of inserts and searches over all the domain names,   *)
(* which is where the shape of the tree is decided.                        *)
(***************************************************************************)
DefaultScore == 50

Next ==
    \/ \E d \in Domains : InsertDomain(d, DefaultScore) /\ UNCHANGED <<calls, bloomVars>>
    \/ \E d \in Domains : SearchDomain(d) /\ UNCHANGED <<calls, bloomVars>>

Spec == Init /\ [][Next]_vars

(***************************************************************************)
(* SpecScore: up to MaxCalls calls of any of the methods on a few domain   *)
(* names, with scores and amounts inside and outside the documented        *)
(* ranges.                                                                 *)
(***************************************************************************)
ScoreDomains == {DomainName(i) : i \in 1..NumScoreDomains}
Scores == {-7, 98, 150}
Amounts == {-1, 20}

OneMoreCall ==
    /\ calls < MaxCalls
    /\ calls' = calls + 1
    /\ UNCHANGED bloomVars

NextScore ==
    \/ \E d \in ScoreDomains, s \in Scores : InsertDomain(d, s) /\ OneMoreCall
    \/ \E d \in ScoreDomains : SearchDomain(d) /\ OneMoreCall
    \/ \E d \in ScoreDomains, s \in Scores : UpdateReputationScore(d, s) /\ OneMoreCall
    \/ \E d \in ScoreDomains, a \in Amounts : IncrementSpamReports(d, a) /\ OneMoreCall
    \/ \E d \in ScoreDomains, a \in Amounts : IncrementLegitimateReports(d, a) /\ OneMoreCall

SpecScore == Init /\ [][NextScore]_vars

(***************************************************************************)
(* SpecMethods: up to MaxCalls calls of any method of the tree, the        *)
(* reading ones included.                                                  *)
(***************************************************************************)
MethodScores == {20, DefaultScore}
MethodAmounts == {2}
Thresholds == {30, DefaultScore}

NextMethods ==
    \/ \E d \in ScoreDomains, s \in MethodScores : InsertDomain(d, s) /\ OneMoreCall
    \/ \E d \in ScoreDomains : SearchDomain(d) /\ OneMoreCall
    \/ \E d \in ScoreDomains, s \in MethodScores : UpdateReputationScore(d, s) /\ OneMoreCall
    \/ \E d \in ScoreDomains, a \in MethodAmounts : IncrementSpamReports(d, a) /\ OneMoreCall
    \/ \E d \in ScoreDomains, a \in MethodAmounts :
           IncrementLegitimateReports(d, a) /\ OneMoreCall
    \/ \E threshold \in Thresholds : GetBlacklistedDomains(threshold) /\ OneMoreCall
    \/ GetHeight /\ OneMoreCall
    \/ VerifyRbProperties /\ OneMoreCall

SpecMethods == Init /\ [][NextMethods]_vars

(***************************************************************************)
(* SpecTraversal: any sequence of inserts, with scores below and at the    *)
(* thresholds, over NumListed domain names, and the reading methods        *)
(* called at any point.                                                    *)
(***************************************************************************)
ListedDomains == {DomainName(i) : i \in 1..NumListed}

NextTraversal ==
    \/ \E d \in ListedDomains, s \in MethodScores :
           InsertDomain(d, s) /\ UNCHANGED <<calls, bloomVars>>
    \/ \E threshold \in Thresholds :
           GetBlacklistedDomains(threshold) /\ UNCHANGED <<calls, bloomVars>>
    \/ GetHeight /\ UNCHANGED <<calls, bloomVars>>
    \/ VerifyRbProperties /\ UNCHANGED <<calls, bloomVars>>

SpecTraversal == Init /\ [][NextTraversal]_vars

(***************************************************************************)
(* SpecVerify: verify_rb_properties on any tree.  Besides the trees made   *)
(* by insert_domain there are the trees a caller puts together from RBNode *)
(* objects: any search-tree shape over up to NumShaped domain names with   *)
(* any coloring (the sentinel stays BLACK).  insert_domain is called on    *)
(* the trees that insert_domain has made.                                  *)
(***************************************************************************)
ShapedDomains == {DomainName(i) : i \in 1..NumShaped}

(* a new RBNode for d, given color c and linked below the entry where the  *)
(* descent for d ends                                                      *)
Link(t, d, c) ==
    LET where == Descend(t, d, None, t.root)
        new_node == NewNode(d)
        t0 == [t EXCEPT !.domain[new_node] = d,
                        !.reputation_score[new_node] = DefaultScore,
                        !.color[new_node] = c,
                        !.left[new_node] = NIL,
                        !.right[new_node] = NIL,
                        !.parent[new_node] = None]
        t1 == Attach(t0, where.node, new_node, d)
    IN  [t1 EXCEPT !.size = t1.size + 1]

RECURSIVE LinkAll(_, _)
LinkAll(ds, cs) ==
    IF ds = <<>> THEN EmptyTree
    ELSE Link(LinkAll(SubSeq(ds, 1, Len(ds) - 1), SubSeq(cs, 1, Len(cs) - 1)),
              ds[Len(ds)], cs[Len(cs)])

HandBuiltTrees ==
    UNION {{LinkAll(ds, cs) :
                ds \in {f \in [1..k -> ShapedDomains] :
                           \A i, j \in 1..k : i # j => f[i] # f[j]},
                cs \in [1..k -> Color]} : k \in 0..NumShaped}

InitVerify ==
    /\ \E t \in HandBuiltTrees :
          /\ root = t.root
          /\ size = t.size
          /\ left = t.left
          /\ right = t.right
          /\ parent = t.parent
          /\ color = t.color
          /\ domain = t.domain
          /\ reputation_score = t.reputation_score
          /\ spam_reports = t.spam_reports
          /\ legitimate_reports = t.legitimate_reports
          /\ raised = t.raised
          /\ fixup = t.fixup
    /\ last = [op |-> "init", domain |-> <<>>, arg |-> 0, ret |-> None, present |-> FALSE]
    /\ inserted = {}
    /\ calls = 0

(* every entry of the tree was made by insert_domain *)
MadeByInserts == \A n \in Nodes : domain[n] # <<>> => domain[n] \in inserted

NextVerify ==
    \/ \E d \in ShapedDomains :
           MadeByInserts /\ InsertDomain(d, DefaultScore) /\ UNCHANGED <<calls, bloomVars>>
    \/ VerifyRbProperties /\ UNCHANGED <<calls, bloomVars>>

(* a hand-built tree, and the filter not yet constructed *)
InitShaped == InitVerify /\ InitBloom

SpecVerify == InitShaped /\ [][NextVerify]_vars

(***************************************************************************)
(* SpecClear: inserts, and clear() called on the tree at any point.        *)
(***************************************************************************)
NextClear ==
    \/ \E d \in ShapedDomains :
           InsertDomain(d, DefaultScore) /\ UNCHANGED <<calls, bloomVars>>
    \/ ClearTree /\ UNCHANGED <<calls, bloomVars>>

SpecClear == Init /\ [][NextClear]_vars

(***************************************************************************)
(* SpecRotate: the two rotations applied, in any order, to any entry that  *)
(* has the child the rotation promotes, in any tree of up to NumShaped     *)
(* entries: the trees the fixup hands to them are among these.             *)
(***************************************************************************)
NextRotate ==
    \/ \E x \in Entries : LeftRotate(x) /\ UNCHANGED <<calls, bloomVars>>
    \/ \E y \in Entries : RightRotate(y) /\ UNCHANGED <<calls, bloomVars>>

SpecRotate == InitShaped /\ [][NextRotate]_vars

(***************************************************************************)
(* SpecAnalytics: up to MaxCalls reports and whitelistings, of domains     *)
(* that are in the tree and of domains that are not.                       *)
(***************************************************************************)
Severities == {1, 2}
Boosts == {10, 20}

NextAnalytics ==
    \/ \E d \in ScoreDomains, severity \in Severities :
           ReportSpamDomain(d, severity) /\ OneMoreCall
    \/ \E d \in ScoreDomains, boost \in Boosts :
           WhitelistDomain(d, boost) /\ OneMoreCall

SpecAnalytics == Init /\ [][NextAnalytics]_vars

(***************************************************************************)
(* SpecBloom: a filter is constructed and then used in any way.            *)
(***************************************************************************)
NextBloom ==
    \/ \E c \in Configs : Construct(c.n, c.percent) /\ UNCHANGED treeVars
    \/ \E item \in Items : Add(item) /\ UNCHANGED treeVars
    \/ \E item \in Items : Contains(item) /\ UNCHANGED treeVars
    \/ Clear /\ UNCHANGED treeVars

SpecBloom == Init /\ [][NextBloom]_vars

(***************************************************************************)
(* SpecConfig: as SpecBloom, with the constructor called on any            *)
(* configuration: item counts below, at and above 0, rates of 0, 10, 100   *)
(* and 200 percent; the items are a keyword, a blank string and None.     *)
(***************************************************************************)
ItemCounts == {-1, 0, 2}
Percents == {0, 10, 100, 200}
ConfigItems == {Str(Keyword(1)), Str(<<32>>), NotAString}

NextConfig ==
    \/ \E n \in ItemCounts, percent \in Percents : Construct(n, percent) /\ UNCHANGED treeVars
    \/ \E item \in ConfigItems : Add(item) /\ UNCHANGED treeVars
    \/ \E item \in ConfigItems : Contains(item) /\ UNCHANGED treeVars
    \/ Clear /\ UNCHANGED treeVars

SpecConfig == Init /\ [][NextConfig]_vars

(***************************************************************************)
(* Vocabulary of the properties.                                           *)
(***************************************************************************)
(* the entries linked into the tree below (and including) node *)
RECURSIVE Subtree(_)
Subtree(node) ==
    IF node = NIL THEN {} ELSE {node} \cup Subtree(left[node]) \cup Subtree(right[node])

InTree == Subtree(root)

(* the numbers of BLACK entries found on the paths from node down to the sentinel *)
RECURSIVE BlackCounts(_)
BlackCounts(node) ==
    IF node = NIL THEN {0}
    ELSE {c + (IF color[node] = BLACK THEN 1 ELSE 0) :
            c \in BlackCounts(left[node]) \cup BlackCounts(right[node])}

StrictlyAscending(seq) ==
    \A i \in 1..(Len(seq) - 1) : StrLess(seq[i], seq[i + 1])

Range(seq) == {seq[i] : i \in 1..Len(seq)}

(* the last call was op and has returned *)
Did(op) == last.op = op /\ ~raised

(***************************************************************************)
(* C1: after every insert_domain, in any sequence of inserts, no RED entry *)
(* of the tree has a RED left or right child.                              *)
(***************************************************************************)
C1_NoRedRed ==
    \A n \in InTree :
        color[n] = RED => (color[left[n]] # RED /\ color[right[n]] # RED)

(* one insert has recolored an uncle and then rotated twice further up *)
C1_Witness ==
    /\ Did("insert_domain")
    /\ fixup.recolorings >= 1
    /\ fixup.rotations = 2

(***************************************************************************)
(* C2: after every insert_domain, for every entry all the paths from it    *)
(* down to the sentinel hold the same number of BLACK entries.             *)
(***************************************************************************)
C2_BlackHeight ==
    \A n \in InTree : Cardinality(BlackCounts(n)) = 1

(* one insert has recolored an uncle and rotated once further up, in a tree *)
(* that is two BLACK entries deep on every path                            *)
C2_Witness ==
    /\ Did("insert_domain")
    /\ fixup.recolorings = 1
    /\ fixup.rotations = 1
    /\ BlackCounts(root) = {2}

(***************************************************************************)
(* C3: in every reachable state the root is BLACK and the sentinel is      *)
(* BLACK and still its own left and right child.                           *)
(***************************************************************************)
C3_RootAndSentinelBlack ==
    /\ color[root] = BLACK
    /\ color[NIL] = BLACK
    /\ left[NIL] = NIL
    /\ right[NIL] = NIL

(* a tree whose root was replaced by a rotation and that has a RED entry *)
C3_Witness ==
    /\ Did("insert_domain")
    /\ root # NIL
    /\ root # NewNode(DomainName(1))
    /\ \E n \in InTree : color[n] = RED /\ parent[n] = root

(***************************************************************************)
(* C4: the in-order traversal lists the domains in strictly ascending      *)
(* string order, none twice, and they are exactly the domains inserted.    *)
(***************************************************************************)
C4_InOrder ==
    LET all == get_all_domains(Tree)
        ds == [i \in 1..Len(all) |-> all[i][1]]
    IN
    /\ StrictlyAscending(ds)
    /\ Cardinality(Range(ds)) = Len(ds)
    /\ Range(ds) = inserted

(* all names are in, and the name made first is not the smallest *)
C4_Witness ==
    /\ Len(get_all_domains(Tree)) = NumDomains
    /\ get_all_domains(Tree)[3] = <<DomainName(4), DefaultScore>>

(***************************************************************************)
(* C5: search_domain(d) returns an entry whose domain is d for every d     *)
(* inserted earlier, and None for every d never inserted.                  *)
(***************************************************************************)
C5_Search ==
    /\ \A d \in Domains :
          LET r == search_domain(Tree, d) IN
          IF d \in inserted THEN r # None /\ domain[r] = d ELSE r = None
    /\ Did("search_domain") =>
          IF last.domain \in inserted
          THEN last.ret # None /\ domain[last.ret] = last.domain
          ELSE last.ret = None

(* a search finds an entry that rotations have moved away from the root *)
C5_Witness ==
    /\ Did("search_domain")
    /\ last.ret = NewNode(DomainName(1))
    /\ root # last.ret
    /\ size >= 5

C5_WitnessAbsent ==
    /\ Did("search_domain")
    /\ last.ret = None
    /\ size >= 5

(***************************************************************************)
(* C6: no false negatives.  As stated: for every non-empty string item     *)
(* that was passed to add, contains returns true afterwards (no clear in   *)
(* between), also for any spelling of it that differs only in letter case  *)
(* or surrounding whitespace.                                              *)
(***************************************************************************)
(* x and y differ at most in letter case and surrounding whitespace *)
SameKeyword(x, y) ==
    /\ x.type = "str"
    /\ y.type = "str"
    /\ lstrip(rstrip(upper(x.chars))) = lstrip(rstrip(upper(y.chars)))

C6_NoFalseNegative_AsStated ==
    \A a \in added :
        (a.type = "str" /\ a.chars # <<>>) =>
            \A x \in Items : SameKeyword(x, a) => contains(Filter, x)

(* C6 as amended: the same for every string item that is not empty after   *)
(* its surrounding whitespace is removed; the answers recorded by the      *)
(* contains calls agree.                                                   *)
C6_NoFalseNegative ==
    /\ \A a \in added :
          (a.type = "str" /\ lstrip(rstrip(a.chars)) # <<>>) =>
              \A x \in Items : SameKeyword(x, a) => contains(Filter, x)
    /\ (bf_last.op = "contains" /\ \E a \in added : SameKeyword(bf_last.item, a)
                                                   /\ lstrip(rstrip(a.chars)) # <<>>)
          => bf_last.ret = TRUE

(* contains has answered true for another spelling of an item that was     *)
(* added before a different keyword was, in a filter with bits still unset *)
C6_Witness ==
    /\ bf_last.op = "contains"
    /\ bf_last.ret = TRUE
    /\ bf_last.item \notin added
    /\ \E a \in added : SameKeyword(bf_last.item, a)
    /\ \E b \in added : b.type = "str" /\ ~SameKeyword(bf_last.item, b) /\ Accepted(b)
    /\ items_added = 2
    /\ \E j \in DOMAIN bit_array : ~bit_array[j]

(***************************************************************************)
(* C7: every stored entry's reputation_score lies in [0,100] after any     *)
(* sequence of insert_domain, update_reputation_score and increment calls. *)
(***************************************************************************)
C7_ScoreInRange ==
    \A n \in InTree : reputation_score[n] >= 0 /\ reputation_score[n] <= 100

(***************************************************************************)
(* C8: every stored entry's spam report count and legitimate report count  *)
(* are >= 0 after any sequence of tree operations.                         *)
(***************************************************************************)
C8_CountsNonNegative ==
    \A n \in InTree : spam_reports[n] >= 0 /\ legitimate_reports[n] >= 0

(***************************************************************************)
(* C9: insert_domain(d, s) for a domain already in the tree overwrites     *)
(* that entry's score with s, returns that entry, and changes nothing      *)
(* else: size, entries, links, colors and report counters stay.            *)
(***************************************************************************)
C9_Step ==
    (last'.op = "insert_domain" /\ last'.present) =>
        LET e == search_domain(Tree, last'.domain) IN
        /\ last'.ret = e
        /\ domain[e] = last'.domain
        /\ reputation_score' = [reputation_score EXCEPT ![e] = last'.arg]
        /\ UNCHANGED <<root, size, left, right, parent, color, domain,
                       spam_reports, legitimate_reports, raised, inserted>>

C9_ReinsertOverwritesScoreOnly == [][C9_Step]_vars

(* a re-insert has given a new score to an entry that has reports *)
C9_Witness ==
    /\ Did("insert_domain")
    /\ last.present
    /\ size = 2
    /\ reputation_score[last.ret] = 150
    /\ spam_reports[last.ret] # 0

(***************************************************************************)
(* C10: increment_spam_reports(domain, amount) on a present domain with    *)
(* score s and spam count c leaves spam count c + amount and score         *)
(* max(0, s - 5*amount), returns that score, and changes neither the       *)
(* entry's legitimate count nor any other entry.                           *)
(***************************************************************************)
C10_Step ==
    (last'.op = "increment_spam_reports" /\ last'.present) =>
        LET e == search_domain(Tree, last'.domain)
            a == last'.arg
            new_score == IF reputation_score[e] - 5 * a > 0
                         THEN reputation_score[e] - 5 * a ELSE 0
        IN
        /\ domain[e] = last'.domain
        /\ spam_reports' = [spam_reports EXCEPT ![e] = spam_reports[e] + a]
        /\ reputation_score' = [reputation_score EXCEPT ![e] = new_score]
        /\ last'.ret = new_score
        /\ UNCHANGED <<root, size, left, right, parent, color, domain,
                       legitimate_reports, raised, inserted>>

C10_IncrementSpam == [][C10_Step]_vars

(* a score of 98 was cut to 0, next to another entry that has a score of its own *)
C10_Witness ==
    /\ Did("increment_spam_reports")
    /\ last.present
    /\ last.arg = 20
    /\ last.ret = 0
    /\ spam_reports[search_domain(Tree, last.domain)] = 20
    /\ legitimate_reports[search_domain(Tree, last.domain)] = -1
    /\ size = 2
    /\ \E n \in InTree : reputation_score[n] # 0

(* the score went down by five times the amount without reaching 0 *)
C10_WitnessUnclamped ==
    /\ Did("increment_spam_reports")
    /\ last.present
    /\ last.arg = 20
    /\ last.ret = 50

(***************************************************************************)
(* C11: increment_legitimate_reports(domain, amount) on a present domain   *)
(* with score s and legitimate count c leaves legitimate count c + amount  *)
(* and score min(100, s + 3*amount), returns that score, and changes       *)
(* neither the entry's spam count nor any other entry.                     *)
(***************************************************************************)
C11_Step ==
    (last'.op = "increment_legitimate_reports" /\ last'.present) =>
        LET e == CHOOSE n \in InTree : domain[n] = last'.domain
            a == last'.arg
            new_score == IF reputation_score[e] + 3 * a < 100
                         THEN reputation_score[e] + 3 * a ELSE 100
        IN
        /\ legitimate_reports' = [legitimate_reports EXCEPT ![e] = legitimate_reports[e] + a]
        /\ reputation_score' = [reputation_score EXCEPT ![e] = new_score]
        /\ last'.ret = new_score
        /\ UNCHANGED <<root, size, left, right, parent, color, domain,
                       spam_reports, raised, inserted>>

C11_IncrementLegitimate == [][C11_Step]_vars

(* a score of 98 was raised to the cap of 100, on an entry that has spam   *)
(* reports, next to another entry                                          *)
C11_Witness ==
    /\ Did("increment_legitimate_reports")
    /\ last.present
    /\ last.arg = 20
    /\ last.ret = 100
    /\ \E n \in InTree : /\ domain[n] = last.domain
                         /\ legitimate_reports[n] = 20
                         /\ spam_reports[n] = -1
    /\ size = 2

(***************************************************************************)
(* C12: update_reputation_score(domain, new_score) on a present domain     *)
(* stores min(100, max(0, new_score)) as the entry's score and reports     *)
(* success; the entry's spam and legitimate counts are unchanged.          *)
(***************************************************************************)
C12_Step ==
    (last'.op = "update_reputation_score" /\ last'.present) =>
        LET e == CHOOSE n \in InTree : domain[n] = last'.domain
            v == last'.arg
            stored == IF v < 0 THEN 0 ELSE IF v > 100 THEN 100 ELSE v
        IN
        /\ reputation_score'[e] = stored
        /\ last'.ret = TRUE
        /\ spam_reports'[e] = spam_reports[e]
        /\ legitimate_reports'[e] = legitimate_reports[e]

(* every call counts in calls, so every call is a step this formula judges *)
C12_UpdateClamps == [][C12_Step]_calls

(* a score below the range was asked for and 0 was stored, on an entry     *)
(* that has reports of both kinds                                          *)
C12_Witness ==
    /\ Did("update_reputation_score")
    /\ last.present
    /\ last.arg = -7
    /\ last.ret = TRUE
    /\ \E n \in InTree : /\ domain[n] = last.domain
                         /\ reputation_score[n] = 0
                         /\ spam_reports[n] # 0
                         /\ legitimate_reports[n] # 0

(* a score above the range was asked for and 100 was stored *)
C12_WitnessAbove ==
    /\ Did("update_reputation_score")
    /\ last.present
    /\ last.arg = 150
    /\ \E n \in InTree : domain[n] = last.domain /\ reputation_score[n] = 100

(***************************************************************************)
(* C13: for a domain that is not in the tree, search_domain,               *)
(* update_reputation_score, increment_spam_reports and                     *)
(* increment_legitimate_reports return None / False without raising,       *)
(* create no entry and leave the whole tree state unchanged.               *)
(***************************************************************************)
LookupOps ==
    {"search_domain", "update_reputation_score", "increment_spam_reports",
     "increment_legitimate_reports"}

C13_Step ==
    (last'.op \in LookupOps /\ (\A n \in InTree : domain[n] # last'.domain)) =>
        /\ IF last'.op = "update_reputation_score"
           THEN last'.ret = FALSE
           ELSE last'.ret = None
        /\ ~raised'
        /\ UNCHANGED <<root, size, left, right, parent, color, domain, reputation_score,
                       spam_reports, legitimate_reports>>

C13_AbsentDomain == [][C13_Step]_calls

(* an increment was asked for a domain that is absent from a tree that has *)
(* another entry                                                           *)
C13_Witness ==
    /\ Did("increment_spam_reports")
    /\ ~last.present
    /\ last.ret = None
    /\ size = 1
    /\ last.domain \notin inserted

C13_WitnessUpdate ==
    /\ Did("update_reputation_score")
    /\ ~last.present
    /\ last.ret = FALSE
    /\ size = 1

(***************************************************************************)
(* C14: search_domain, update_reputation_score, increment_spam_reports,    *)
(* increment_legitimate_reports, get_blacklisted_domains, get_height and   *)
(* verify_rb_properties never change the shape of the tree: root, child    *)
(* and parent links, colors, domain keys and size are as before the call.  *)
(***************************************************************************)
ShapeKeepingOps ==
    LookupOps \cup {"get_blacklisted_domains", "get_height", "verify_rb_properties"}

C14_Step ==
    (last'.op \in ShapeKeepingOps) =>
        UNCHANGED <<root, size, left, right, parent, color, domain>>

C14_ShapeUnchanged == [][C14_Step]_calls

(* get_blacklisted_domains found one of two entries, and the tree has both *)
C14_Witness ==
    /\ Did("get_blacklisted_domains")
    /\ size = 2
    /\ Len(last.ret) = 1
    /\ Cardinality(InTree) = 2

(* a score was changed in a tree of two entries *)
C14_WitnessUpdate ==
    /\ Did("increment_spam_reports")
    /\ last.present
    /\ Cardinality(InTree) = 2

(* verify_rb_properties and get_height ran on a tree of two entries *)
C14_WitnessVerify ==
    /\ Did("verify_rb_properties")
    /\ last.ret = <<TRUE, <<>> >>
    /\ Cardinality(InTree) = 2

C14_WitnessHeight ==
    /\ Did("get_height")
    /\ last.ret = 2

(***************************************************************************)
(* C15: as stated: for a validly constructed filter and any non-empty      *)
(* string item, contains(item) is true exactly when every one of the k bit *)
(* positions derived from the normalized item is set; contains changes     *)
(* neither the bit array nor items_added.                                  *)
(***************************************************************************)
(* the k positions of the item after lower() and strip(), whether or not   *)
(* the guard of add and contains lets the item through                     *)
Positions(item) ==
    IF Accepted(item) THEN Fingerprint(Filter, item)
    ELSE _get_hash_values(item.chars, bf_size, num_hashes)

AllPositionsSet(item) ==
    /\ Len(Positions(item)) = num_hashes
    /\ \A i \in 1..num_hashes : bit_array[Positions(item)[i]]

C15_Step_AsStated ==
    (bf_last'.op = "contains" /\ bf_last'.item.type = "str" /\ bf_last'.item.chars # <<>>) =>
        /\ bf_last'.ret = AllPositionsSet(bf_last'.item)
        /\ UNCHANGED <<bit_array, items_added>>

C15_Contains_AsStated == [][C15_Step_AsStated]_vars

(* C15 as amended: the same for every string item that is not empty after  *)
(* its surrounding whitespace is removed.                                  *)
C15_Step ==
    (bf_last'.op = "contains" /\ bf_last'.item.type = "str"
        /\ strip(bf_last'.item.chars) # <<>>) =>
        /\ bf_last'.ret = AllPositionsSet(bf_last'.item)
        /\ UNCHANGED <<bit_array, items_added>>

C15_Contains == [][C15_Step]_vars

(* contains has answered false for an item of which some positions, but    *)
(* not all, are set                                                        *)
C15_Witness ==
    /\ bf_last.op = "contains"
    /\ bf_last.ret = FALSE
    /\ Accepted(bf_last.item)
    /\ \E i \in 1..num_hashes : bit_array[Positions(bf_last.item)[i]]
    /\ \E i \in 1..num_hashes : ~bit_array[Positions(bf_last.item)[i]]

(***************************************************************************)
(* C16: construction fails whenever expected_items <= 0 or the false       *)
(* positive rate is outside the open interval (0, 1): no filter exists for *)
(* such parameters, and none that has taken an add or a contains.          *)
(***************************************************************************)
ValidConfiguration ==
    expected_items > 0 /\ false_positive_rate > 0 /\ false_positive_rate < 100

C16_InvalidConfigurationRejected ==
    /\ constructed => ValidConfiguration
    /\ (bf_last.op \in {"add", "contains"} /\ ~bf_last.raised) => ValidConfiguration

(***************************************************************************)
(* C17: add(item) with a non-string, empty or whitespace-only item changes *)
(* neither the bit array nor items_added; contains(item) with such an item *)
(* returns false; neither call raises.                                     *)
(***************************************************************************)
Blank(item) ==
    \/ item.type # "str"
    \/ \A i \in 1..Len(item.chars) : item.chars[i] \in Whitespace

C17_Step ==
    (bf_last'.op \in {"add", "contains"} /\ Blank(bf_last'.item)) =>
        /\ UNCHANGED <<bit_array, items_added>>
        /\ bf_last'.op = "contains" => bf_last'.ret = FALSE
        /\ ~bf_last'.raised

C17_BlankItemIgnored == [][C17_Step]_vars

(* a whitespace-only string was handed to add of a filter that holds an    *)
(* item, and nothing was counted                                           *)
C17_Witness ==
    /\ bf_last.op = "add"
    /\ bf_last.item = Str(<<32>>)
    /\ items_added = 1
    /\ \E j \in DOMAIN bit_array : bit_array[j]

(* contains was asked for something that is not a string *)
C17_WitnessNotAString ==
    /\ bf_last.op = "contains"
    /\ bf_last.item = NotAString
    /\ bf_last.ret = FALSE
    /\ items_added = 1

(* the empty string was handed to add *)
C17_WitnessEmpty ==
    /\ bf_last.op = "add"
    /\ bf_last.item = Str(<<>>)
    /\ items_added = 1

(***************************************************************************)
(* C18: index derivation is a function of the normalized item and of       *)
(* (m, k) alone: it yields exactly k indices, the i-th (from 0) computed   *)
(* by mixing function number i mod 4 with seed i div 4, each in [0, m);    *)
(* add sets and contains reads exactly these positions, whatever the bit   *)
(* array, items_added and the earlier calls are.                           *)
(***************************************************************************)
(* the mixing functions in the order of the code's list *)
Mix(number, key, seed, m) ==
    CASE number = 0 -> _murmur_hash(key, seed, m)
      [] number = 1 -> _fnv_hash(key, seed, m)
      [] number = 2 -> _djb2_hash(key, seed, m)
      [] number = 3 -> _sdbm_hash(key, seed, m)

(* what the claim says the indices are, for every size, hash count and     *)
(* item that occurs, with no reference to the state of a filter            *)
C18_Derived ==
    [c \in Configs |->
        LET m == _calculate_optimal_size(c.n, c.percent)
            k == _calculate_optimal_hash_count(m, c.n)
        IN  [it \in {x \in Items : ~Blank(x)} |->
                [i \in 0..(k - 1) |-> Mix(i % 4, strip(lower(it.chars)), i \div 4, m)]]]

C18_Indices(item) ==
    C18_Derived[[n |-> expected_items, percent |-> false_positive_rate]][item]

C18_Step ==
    (bf_last'.op \in {"add", "contains"} /\ ~Blank(bf_last'.item)) =>
        LET indices == C18_Indices(bf_last'.item) IN
        /\ DOMAIN indices = 0..(num_hashes - 1)
        /\ \A i \in DOMAIN indices : indices[i] \in 0..(bf_size - 1)
        /\ bf_last'.op = "add" =>
              bit_array' = [j \in 0..(bf_size - 1) |->
                               bit_array[j] \/ \E i \in DOMAIN indices : indices[i] = j]
        /\ bf_last'.op = "contains" =>
              bf_last'.ret = \A i \in DOMAIN indices : bit_array[indices[i]]

C18_IndexDerivation == [][C18_Step]_vars

(* an item was added for the second time, in another spelling, to a filter *)
(* whose indices 4 to 6 are made with seed 1, after another item           *)
C18_Witness ==
    /\ bf_last.op = "add"
    /\ ~Blank(bf_last.item)
    /\ num_hashes = 7
    /\ items_added = 2
    /\ \E a \in added : a # bf_last.item /\ SameKeyword(a, bf_last.item)

(***************************************************************************)
(* C19: after clear() on a filter in any reachable state every bit is      *)
(* cleared and items_added is 0 while m and k are unchanged; the filter is *)
(* then the filter a fresh construction with the same parameters gives, so *)
(* that every later add, contains and get_stats, which read nothing but    *)
(* the filter, gives what it gives on the fresh one.                       *)
(***************************************************************************)
C19_Step ==
    (bf_last'.op = "clear") =>
        LET fresh == BloomFilter(expected_items, false_positive_rate) IN
        /\ \A j \in DOMAIN bit_array' : ~bit_array'[j]
        /\ items_added' = 0
        /\ bf_size' = bf_size
        /\ num_hashes' = num_hashes
        /\ DOMAIN bit_array' = 0..(bf_size - 1)
        /\ Filter' = fresh
        /\ get_stats(Filter') = get_stats(fresh)

C19_ClearGivesFreshFilter == [][C19_Step]_vars

(* a filter of 20 bits and 7 hash functions has just been cleared *)
C19_Witness ==
    /\ bf_last.op = "clear"
    /\ bf_size = 20
    /\ num_hashes = 7
    /\ items_added = 0
    /\ added = {}

(***************************************************************************)
(* C20: between clears the filter only accumulates: across add and         *)
(* contains a bit that is set stays set, items_added never decreases and   *)
(* grows by exactly 1 for each accepted add, also of an item added before; *)
(* m and k never change after construction.                                *)
(***************************************************************************)
C20_Step ==
    /\ constructed =>
          /\ bf_size' = bf_size
          /\ num_hashes' = num_hashes
          /\ DOMAIN bit_array' = DOMAIN bit_array
    /\ (bf_last'.op \in {"add", "contains"}) =>
          /\ \A j \in DOMAIN bit_array : bit_array[j] => bit_array'[j]
          /\ items_added' =
                IF bf_last'.op = "add" /\ ~Blank(bf_last'.item)
                THEN items_added + 1 ELSE items_added

C20_OnlyAccumulates == [][C20_Step]_vars

(* the same item, in the same spelling, was added twice and counted twice *)
C20_Witness ==
    /\ bf_last.op = "add"
    /\ ~Blank(bf_last.item)
    /\ added = {bf_last.item}
    /\ items_added = 2

(***************************************************************************)
(* C21: get_blacklisted_domains(threshold) returns exactly the entries     *)
(* whose score is strictly below the threshold, each once, in ascending    *)
(* domain order; calling it again on the unchanged tree returns the same   *)
(* sequence.                                                               *)
(***************************************************************************)
C21_Blacklisted ==
    Did("get_blacklisted_domains") =>
        LET ret == last.ret
            threshold == last.arg
            ds == [i \in 1..Len(ret) |-> ret[i][1]]
        IN
        /\ \A i \in 1..Len(ret) :
              \E n \in InTree : /\ domain[n] = ret[i][1]
                                /\ reputation_score[n] = ret[i][2]
                                /\ reputation_score[n] < threshold
        /\ \A n \in InTree :
              reputation_score[n] < threshold =>
                  Cardinality({i \in 1..Len(ret) : ret[i][1] = domain[n]}) = 1
        /\ StrictlyAscending(ds)
        /\ get_blacklisted_domains(Tree, threshold).ret = ret

(* of four entries two are listed, one of the others having a score equal  *)
(* to the threshold; the listed ones are not neighbours in the tree order  *)
C21_Witness ==
    /\ Did("get_blacklisted_domains")
    /\ size = 4
    /\ last.arg = DefaultScore
    /\ Len(last.ret) = 2
    /\ last.ret[1][1] = DomainName(2)
    /\ last.ret[2][1] = DomainName(3)

(***************************************************************************)
(* C22: verify_rb_properties is an exact checker: for any tree shape and   *)
(* coloring it returns (True, []) exactly when the root is BLACK, no RED   *)
(* entry has a RED child and all paths from the root to the sentinel have  *)
(* the same number of BLACK entries; otherwise it returns False and the    *)
(* list names each violated property.  After any sequence of inserts it    *)
(* returns (True, []).                                                     *)
(***************************************************************************)
RootIsBlack == color[root] = BLACK

NoRedEntryHasRedChild ==
    \A n \in InTree :
        color[n] = RED => (color[left[n]] # RED /\ color[right[n]] # RED)

EqualBlackCounts == Cardinality(BlackCounts(root)) = 1

C22_ExactChecker ==
    Did("verify_rb_properties") =>
        LET ok == last.ret[1]
            errors == last.ret[2]
        IN
        /\ ok = (RootIsBlack /\ NoRedEntryHasRedChild /\ EqualBlackCounts)
        /\ ok = (errors = <<>>)
        /\ ("Root is not black" \in Range(errors)) = ~RootIsBlack
        /\ ("Red-Red violation found" \in Range(errors)) = ~NoRedEntryHasRedChild
        /\ ("Black height violation found" \in Range(errors)) = ~EqualBlackCounts
        /\ Cardinality(Range(errors)) = Len(errors)
        /\ MadeByInserts => last.ret = <<TRUE, <<>> >>

(* a tree with a BLACK root whose only fault is a RED right child below a  *)
(* RED entry was refused with that one message                             *)
C22_Witness ==
    /\ Did("verify_rb_properties")
    /\ last.ret = <<FALSE, <<"Red-Red violation found">> >>
    /\ \E n \in InTree : color[n] = RED /\ color[right[n]] = RED /\ color[left[n]] = BLACK

(* all three properties are violated and named *)
C22_WitnessAll ==
    /\ Did("verify_rb_properties")
    /\ Len(last.ret[2]) = 3

(* a hand-built tree passes *)
C22_WitnessAccepted ==
    /\ Did("verify_rb_properties")
    /\ last.ret[1]
    /\ size = NumShaped
    /\ inserted = {}

(* a tree made by inserts, after a rotation, passes *)
C22_WitnessInserts ==
    /\ Did("verify_rb_properties")
    /\ last.ret = <<TRUE, <<>> >>
    /\ inserted = ShapedDomains
    /\ size = NumShaped

(***************************************************************************)
(* C23: after any sequence of inserts leaving n entries, get_height() is   *)
(* the number of entries on the longest path from the root down to the     *)
(* sentinel (0 for the empty tree) and is at most 2*log2(n+1), that is,    *)
(* 2^height <= (n+1)^2; a tree of three entries, such as the one made by   *)
(* inserting b.com, a.com, c.com, has height at most 2.                    *)
(***************************************************************************)
(* the number of entries from the root down to node, both counted *)
RECURSIVE EntriesDownTo(_)
EntriesDownTo(node) ==
    IF node = root THEN 1 ELSE 1 + EntriesDownTo(parent[node])

LongestPath ==
    IF InTree = {} THEN 0
    ELSE CHOOSE h \in 1..NumDomains :
            /\ \E n \in InTree : EntriesDownTo(n) = h
            /\ \A n \in InTree : EntriesDownTo(n) <= h

C23_HeightBound ==
    LET height == get_height(Tree).ret IN
    /\ height = LongestPath
    /\ 2 ^ height <= (size + 1) * (size + 1)
    /\ size = 3 => height <= 2

(* every name is in and the tree is four entries high; a chain of that     *)
(* many entries would break the bound                                      *)
C23_Witness ==
    /\ Did("insert_domain")
    /\ size = NumDomains
    /\ get_height(Tree).ret = 4
    /\ 2 ^ size > (size + 1) * (size + 1)

(* the middle one of three names was inserted first, as b.com is *)
C23_WitnessThree ==
    /\ Did("insert_domain")
    /\ size = 3
    /\ domain[root] = DomainName(2)
    /\ inserted = {DomainName(1), DomainName(2), DomainName(3)}
    /\ fixup.rotations = 0
    /\ get_height(Tree).ret = 2

(***************************************************************************)
(* C24: the tree has a clear() operation which, from any reachable state,  *)
(* returns and leaves the tree as a freshly constructed one: no entries,   *)
(* size 0, the sentinel as root.                                           *)
(***************************************************************************)
C24_ClearRestoresTree ==
    last.op = "clear" =>
        /\ ~raised
        /\ root = NIL
        /\ size = 0
        /\ InTree = {}

(***************************************************************************)
(* C25: _left_rotate(x), x having a right child, and _right_rotate(y), y   *)
(* having a left child, leave the in-order sequence of the domains, all    *)
(* colors and all scores unchanged, keep the parent link of every child    *)
(* pointing at the entry that has it as child, and make the promoted entry *)
(* the root, with parent None, exactly when the pivot was the root.        *)
(***************************************************************************)
C25_Step ==
    (last'.op \in {"_left_rotate", "_right_rotate"}) =>
        LET pivot == CHOOSE n \in InTree : domain[n] = last'.domain
            promoted == IF last'.op = "_left_rotate" THEN right[pivot] ELSE left[pivot]
        IN
        /\ promoted # NIL
        /\ get_all_domains(Tree)' = get_all_domains(Tree)
        /\ StrictlyAscending([i \in 1..Len(get_all_domains(Tree)) |->
                                 get_all_domains(Tree)[i][1]])
        /\ UNCHANGED <<color, reputation_score, domain, size>>
        /\ InTree' = InTree
        /\ \A n \in InTree' :
              /\ left'[n] # NIL => parent'[left'[n]] = n
              /\ right'[n] # NIL => parent'[right'[n]] = n
        /\ parent'[NIL] = parent[NIL]
        /\ parent'[pivot] = promoted
        /\ (root' = promoted /\ parent'[promoted] = None) <=> (root = pivot)
        /\ root # pivot => (root' = root /\ parent'[promoted] = parent[pivot])

C25_Rotations == [][C25_Step]_vars

(* a left rotation below the root has moved the promoted entry's left      *)
(* subtree to the pivot                                                    *)
C25_Witness ==
    /\ Did("_left_rotate")
    /\ size = NumShaped
    /\ \E x \in InTree :
          /\ domain[x] = last.domain
          /\ right[x] # NIL
          /\ parent[x] # root
          /\ parent[x] # None
          /\ parent[parent[x]] = root

(* a right rotation of the root has given the tree a new root *)
C25_WitnessRoot ==
    /\ Did("_right_rotate")
    /\ \E y \in InTree :
          /\ domain[y] = last.domain
          /\ parent[y] = root
          /\ left[y] # NIL
          /\ right[root] = y

(***************************************************************************)
(* C26: the fixup run by every insert of a new domain terminates: a step   *)
(* with a RED uncle only recolors and moves the current entry two levels   *)
(* up, a step with a BLACK uncle ends the loop; so one insert performs at  *)
(* most two rotations and never dereferences a missing grandparent.        *)
(***************************************************************************)
(* in every state: no call has ended in an exception, the last insert has  *)
(* rotated at most twice, and its recolorings, two levels each, fit in the *)
(* height of the tree                                                      *)
C26_Bounded ==
    /\ ~raised
    /\ fixup.rotations <= 2
    /\ 2 * fixup.recolorings <= get_height(Tree).ret

(* an insert of a new domain that did not rotate has changed no link       *)
(* except the one that holds the new entry; one that rotated has rotated   *)
(* after its last recoloring, and once if the new entry is an outer        *)
(* grandchild                                                              *)
C26_Step ==
    (last'.op = "insert_domain" /\ ~last'.present) =>
        LET new == last'.ret IN
        /\ new \notin InTree
        /\ InTree' = InTree \cup {new}
        /\ fixup'.rotations = 0 =>
              \A n \in InTree :
                  /\ parent'[n] = parent[n]
                  /\ left'[n] \in {left[n], new}
                  /\ right'[n] \in {right[n], new}
        /\ color'[root'] = BLACK

C26_FixupTerminates == []C26_Bounded /\ [][C26_Step]_vars

(* one insert has recolored once, two levels up, and then rotated twice *)
C26_Witness ==
    /\ Did("insert_domain")
    /\ fixup.recolorings = 1
    /\ fixup.rotations = 2
    /\ 2 * fixup.recolorings + 2 <= get_height(Tree).ret

(* one insert has recolored and then found a BLACK parent: no rotation *)
C26_WitnessRecolorOnly ==
    /\ Did("insert_domain")
    /\ fixup.recolorings = 1
    /\ fixup.rotations = 0
    /\ size = 4

(***************************************************************************)
(* C27: report_spam_domain(domain, severity) and whitelist_domain(domain,  *)
(* boost) return, and record as new_score in the action history, the score *)
(* that the tree stores for the domain when the call finishes.             *)
(***************************************************************************)
C27_ReturnsStoredScore ==
    (last.op \in {"report_spam_domain", "whitelist_domain"}) =>
        \E n \in InTree :
            /\ domain[n] = last.domain
            /\ last.ret.returned = reputation_score[n]
            /\ last.ret.logged.new_score = reputation_score[n]

====
